---- MODULE Spec2Model ----
(***************************************************************************)
(* A model of pdf_footer_remover.py: the command-line entry point, main()  *)
(* and remove_footer(), run as successive invocations of the script over a *)
(* small file system.                                                      *)
(*                                                                         *)
(* Coordinates are the values of Python floats.  The model draws them from *)
(* integer-valued points, on which float addition is exact; fractional     *)
(* coordinates and footer heights (decimal point, exponent, inf, nan) are  *)
(* outside the modelled inputs.                                            *)
(***************************************************************************)
EXTENDS Integers, Sequences, FiniteSets, TLC

VARIABLES
    fs,            \* path -> file: what is on disk
    sys_argv,      \* sys.argv of the current invocation (sys_argv[1] is the script)
    pc,            \* position of the current invocation
    input_pdf,     \* remove_footer's parameters, set when it is called
    output_pdf,
    footer_height_points,
    reader,        \* reader.pages: the parsed pages, mutated in place
    writer,        \* the pages added to the PdfWriter
    page_num,      \* pages of reader.pages the loop has taken so far
    output_file,   \* the handle of line 53: "unopened", "open", "closed"
    exc,           \* the exception in flight or caught: [cls, at]
    stdout,        \* the lines printed
    stderr,        \* the interpreter's traceback, if any
    exit_status,   \* -1 while the process runs, then its exit status
    calls,         \* history: the library and OS calls of this invocation
    orig_pages,    \* history: the pages as parsed, before any adjustment
    fs0,           \* history: the file system when this invocation started
    prev,          \* history: the previous invocation, if it succeeded
    runs           \* invocations started so far

vars == <<fs, sys_argv, pc, input_pdf, output_pdf, footer_height_points, reader,
          writer, page_num, output_file, exc, stdout, stderr, exit_status,
          calls, orig_pages, fs0, prev, runs>>

(* ------------------------------ bounds -------------------------------- *)

MaxPages == 2
MaxRuns == 2

(* ------------------------- PDF objects and pages ---------------------- *)

\* A PDF number as the library holds it: an integer object, a real object,
\* or (in a damaged page) something that is no number.
NumberObject(v) == [t |-> "int", v |-> v]
FloatObject(v) == [t |-> "real", v |-> v]
NullObject == [t |-> "null", v |-> 0]

\* float(x) of lines 35-38: the value of a numeric object, TypeError otherwise.
PyFloatOfObject(o) ==
    IF o.t \in {"int", "real"} THEN [ok |-> TRUE, val |-> o.v]
    ELSE [ok |-> FALSE, val |-> 0]

\* media_box.lower_left and media_box.upper_right: the rectangle is the array
\* [llx lly urx ury].
lower_left(box) == <<box[1], box[2]>>
upper_right(box) == <<box[3], box[4]>>

\* The assignments of lines 44 and 45: each stores two float objects.
SetLowerLeft(box, pt) ==
    [box EXCEPT ![1] = FloatObject(pt[1]), ![2] = FloatObject(pt[2])]
SetUpperRight(box, pt) ==
    [box EXCEPT ![3] = FloatObject(pt[1]), ![4] = FloatObject(pt[2])]

Rect(a, b, c, d) ==
    <<NumberObject(a), NumberObject(b), NumberObject(c), NumberObject(d)>>

LetterPage == [content |-> "letter", mediabox |-> Rect(0, 0, 612, 792)]
SmallPage == [content |-> "small", mediabox |-> Rect(10, 20, 100, 70)]
DamagedPage ==
    [content |-> "damaged",
     mediabox |-> <<NumberObject(0), NullObject, NumberObject(612), NumberObject(792)>>]

PageKinds == {LetterPage, SmallPage, DamagedPage}

SeqsUpTo(S, n) == UNION {[1..k -> S] : k \in 0..n}

Documents == SeqsUpTo(PageKinds, MaxPages)

(* ------------------------------ files --------------------------------- *)

Paths == {"input.pdf", "output.pdf"}

Absent == [kind |-> "absent", pages |-> <<>>]
Garbage == [kind |-> "garbage", pages |-> <<>>]
PdfFile(pages) == [kind |-> "pdf", pages |-> pages]

(* --------------------------- command line ----------------------------- *)

Script == "pdf_footer_remover.py"

\* The third argument as the characters typed.
FooterArgs ==
    { <<"5">>, <<"5", "5">>, <<"-", "5">>, <<"0">>, <<" ", "5">>, <<"x">> }

CommandLines ==
    {<<Script>>}
    \cup {<<Script, i>> : i \in Paths}
    \cup {<<Script, i, o>> : i \in Paths, o \in Paths}
    \cup {<<Script, i, o, h>> : i \in Paths, o \in Paths, h \in FooterArgs}

\* sys.argv[i], Python's index.
Argv(i) == sys_argv[i + 1]

Digit(c) ==
    CASE c = "0" -> 0 [] c = "1" -> 1 [] c = "2" -> 2 [] c = "3" -> 3
      [] c = "4" -> 4 [] c = "5" -> 5 [] c = "6" -> 6 [] c = "7" -> 7
      [] c = "8" -> 8 [] c = "9" -> 9 [] OTHER -> -1

RECURSIVE StripLeft(_)
StripLeft(s) == IF s # <<>> /\ Head(s) = " " THEN StripLeft(Tail(s)) ELSE s

RECURSIVE StripRight(_)
StripRight(s) ==
    IF s # <<>> /\ s[Len(s)] = " " THEN StripRight(SubSeq(s, 1, Len(s) - 1)) ELSE s

RECURSIVE DigitsValue(_)
DigitsValue(s) ==
    IF s = <<>> THEN 0 ELSE 10 * DigitsValue(SubSeq(s, 1, Len(s) - 1)) + Digit(s[Len(s)])

\* float(s) of line 91 on a string: surrounding blanks are dropped, then an
\* optional sign and at least one digit; anything else is a ValueError.
PyFloatOfString(s) ==
    LET t == StripRight(StripLeft(s))
        signed == t # <<>> /\ Head(t) \in {"+", "-"}
        d == IF signed THEN Tail(t) ELSE t
        good == d # <<>> /\ \A i \in 1..Len(d) : Digit(d[i]) >= 0
    IN  IF good
        THEN [ok |-> TRUE,
              val |-> IF signed /\ Head(t) = "-" THEN 0 - DigitsValue(d) ELSE DigitsValue(d)]
        ELSE [ok |-> FALSE, val |-> 0]

(* ---------------------------- exceptions ------------------------------ *)

NoExc == [cls |-> "none", at |-> "none"]

\* Variant: the failure is swallowed and the function carries on to its end.
TryTargetSwallow(cls) == "rf_success"

\* isinstance(e, Exception): SystemExit derives from BaseException only.
IsException(cls) == cls # "SystemExit"

\* Where control goes when cls is raised inside the try of lines 21-60.
TryTarget(cls) == IF IsException(cls) THEN "rf_except" ELSE "exited"

Line(msg, n, total, text) == [msg |-> msg, n |-> n, total |-> total, text |-> text]

(* ------------------------------- Init --------------------------------- *)

NoPrev == [ok |-> FALSE, output |-> "", h |-> 0, orig |-> <<>>, out |-> <<>>]

InitialFiles ==
    { [p \in Paths |-> IF p = "input.pdf" THEN i ELSE o] :
        i \in {Absent, Garbage} \cup {PdfFile(d) : d \in Documents},
        o \in {Absent, PdfFile(<<LetterPage>>)} }

Fresh(argv, files) ==
    /\ sys_argv = argv
    /\ fs = files
    /\ fs0 = files
    /\ pc = "start"
    /\ input_pdf = ""
    /\ output_pdf = ""
    /\ footer_height_points = 0
    /\ reader = <<>>
    /\ writer = <<>>
    /\ page_num = 0
    /\ output_file = "unopened"
    /\ exc = NoExc
    /\ stdout = <<>>
    /\ stderr = <<>>
    /\ exit_status = -1
    /\ calls = <<>>
    /\ orig_pages = <<>>

Init ==
    /\ \E argv \in CommandLines, files \in InitialFiles : Fresh(argv, files)
    /\ prev = NoPrev
    /\ runs = 1

(* -------------------------- the entry point --------------------------- *)

\* Line 72, main()'s footer_height, and line 91, the default of the command line.
MainFooterHeight == 50
CliFooterHeight == 50

Banner(i, o, h) ==
    << Line("PDF Footer Remover", 0, 0, ""),
       Line("=" , 50, 0, ""),
       Line("Input file:", 0, 0, i),
       Line("Output file:", 0, 0, o),
       Line("Footer height to remove:", h, 0, "points"),
       Line("=", 50, 0, ""),
       Line("", 0, 0, "") >>

\* Variants of the command-line reading: the output default taken one
\* argument late, and the third argument never parsed.
CliOutputShifted == IF Len(sys_argv) > 3 THEN Argv(2) ELSE "output.pdf"
CliFooterDefault == [ok |-> TRUE, val |-> CliFooterHeight]

\* What lines 89-91 compute from sys.argv.
CliInput == Argv(1)
CliOutput == IF Len(sys_argv) > 2 THEN Argv(2) ELSE "output.pdf"
CliFooter ==
    IF Len(sys_argv) > 3 THEN PyFloatOfString(Argv(3))
    ELSE [ok |-> TRUE, val |-> CliFooterHeight]

\* Lines 88-93: arguments were given.  float() of line 91 runs before
\* remove_footer is called, outside its try: a ValueError reaches the
\* interpreter, which prints the traceback and exits with status 1.
CommandLine ==
    /\ pc = "start"
    /\ Len(sys_argv) > 1
    /\ IF CliFooter.ok
       THEN /\ input_pdf' = CliInput
            /\ output_pdf' = CliOutput
            /\ footer_height_points' = CliFooter.val
            /\ pc' = "rf_exists"
            /\ UNCHANGED <<exc, stderr, exit_status>>
       ELSE /\ exc' = [cls |-> "ValueError", at |-> "argv"]
            /\ stderr' = <<Line("Traceback", 0, 0, "ValueError")>>
            /\ pc' = "exited"
            /\ exit_status' = 1
            /\ UNCHANGED <<input_pdf, output_pdf, footer_height_points>>
    /\ UNCHANGED <<fs, sys_argv, reader, writer, page_num, output_file, stdout,
                   calls, orig_pages, fs0, prev, runs>>

\* Lines 94-95 and 66-83: no argument, main() with its configuration.
main ==
    /\ pc = "start"
    /\ ~(Len(sys_argv) > 1)
    /\ stdout' = stdout \o Banner("input.pdf", "output.pdf", MainFooterHeight)
    /\ input_pdf' = "input.pdf"
    /\ output_pdf' = "output.pdf"
    /\ footer_height_points' = MainFooterHeight
    /\ pc' = "rf_exists"
    /\ UNCHANGED <<fs, sys_argv, reader, writer, page_num, output_file, exc,
                   stderr, exit_status, calls, orig_pages, fs0, prev, runs>>

(* --------------------------- remove_footer ---------------------------- *)

\* Variant: no existence check.
ExistsAlways(path) == TRUE

\* Path(input_pdf).exists() of line 23.
Exists(path) == fs[path].kind # "absent"

\* Lines 21-25.  sys.exit(1) raises SystemExit inside the try.
RfExists ==
    /\ pc = "rf_exists"
    /\ calls' = Append(calls, "exists")
    /\ IF ~Exists(input_pdf)
       THEN /\ stdout' = Append(stdout, Line("Error: Input file not found.", 0, 0, input_pdf))
            /\ exc' = [cls |-> "SystemExit", at |-> "exists"]
            /\ pc' = TryTarget("SystemExit")
            /\ exit_status' = IF TryTarget("SystemExit") = "exited" THEN 1 ELSE exit_status
       ELSE /\ pc' = "rf_read"
            /\ UNCHANGED <<stdout, exc, exit_status>>
    /\ UNCHANGED <<fs, sys_argv, input_pdf, output_pdf, footer_height_points, reader,
                   writer, page_num, output_file, stderr, orig_pages, fs0, prev, runs>>

\* Lines 28-29: PdfReader(input_pdf), PdfWriter().
RfRead ==
    /\ pc = "rf_read"
    /\ calls' = Append(calls, "PdfReader")
    /\ IF fs[input_pdf].kind = "pdf"
       THEN /\ reader' = fs[input_pdf].pages
            /\ orig_pages' = fs[input_pdf].pages
            /\ writer' = <<>>
            /\ page_num' = 0
            /\ pc' = "rf_loop"
            /\ UNCHANGED <<exc, exit_status>>
       ELSE /\ exc' = [cls |-> IF fs[input_pdf].kind = "absent"
                               THEN "FileNotFoundError" ELSE "PdfReadError",
                       at |-> "read"]
            /\ pc' = TryTarget("PdfReadError")
            /\ exit_status' = IF TryTarget("PdfReadError") = "exited" THEN 1 ELSE exit_status
            /\ UNCHANGED <<reader, orig_pages, writer, page_num>>
    /\ UNCHANGED <<fs, sys_argv, input_pdf, output_pdf, footer_height_points,
                   output_file, stdout, stderr, fs0, prev, runs>>

\* Variants of the adjustment: the offset subtracted; the offset taken from
\* the page origin instead of the current lower edge; a rectangle that would
\* not keep its lower edge below its upper edge rejected.
CropBoxDown(box, h) ==
    LET lower_left_x == PyFloatOfObject(lower_left(box)[1])
        lower_left_y == PyFloatOfObject(lower_left(box)[2])
        upper_right_x == PyFloatOfObject(upper_right(box)[1])
        upper_right_y == PyFloatOfObject(upper_right(box)[2])
        new_lower_y == lower_left_y.val - h
    IN  IF lower_left_x.ok /\ lower_left_y.ok /\ upper_right_x.ok /\ upper_right_y.ok
        THEN [ok |-> TRUE,
              box |-> SetUpperRight(SetLowerLeft(box, <<lower_left_x.val, new_lower_y>>),
                                    <<upper_right_x.val, upper_right_y.val>>)]
        ELSE [ok |-> FALSE, box |-> box]

CropBoxAbsolute(box, h) ==
    LET lower_left_x == PyFloatOfObject(lower_left(box)[1])
        lower_left_y == PyFloatOfObject(lower_left(box)[2])
        upper_right_x == PyFloatOfObject(upper_right(box)[1])
        upper_right_y == PyFloatOfObject(upper_right(box)[2])
        new_lower_y == h
    IN  IF lower_left_x.ok /\ lower_left_y.ok /\ upper_right_x.ok /\ upper_right_y.ok
        THEN [ok |-> TRUE,
              box |-> SetUpperRight(SetLowerLeft(box, <<lower_left_x.val, new_lower_y>>),
                                    <<upper_right_x.val, upper_right_y.val>>)]
        ELSE [ok |-> FALSE, box |-> box]

CropBoxChecked(box, h) ==
    LET lower_left_x == PyFloatOfObject(lower_left(box)[1])
        lower_left_y == PyFloatOfObject(lower_left(box)[2])
        upper_right_x == PyFloatOfObject(upper_right(box)[1])
        upper_right_y == PyFloatOfObject(upper_right(box)[2])
        new_lower_y == lower_left_y.val + h
    IN  IF /\ lower_left_x.ok /\ lower_left_y.ok /\ upper_right_x.ok /\ upper_right_y.ok
           /\ new_lower_y < upper_right_y.val
        THEN [ok |-> TRUE,
              box |-> SetUpperRight(SetLowerLeft(box, <<lower_left_x.val, new_lower_y>>),
                                    <<upper_right_x.val, upper_right_y.val>>)]
        ELSE [ok |-> FALSE, box |-> box]

\* Lines 34-45 on one page: the four floats, then the two assignments.
CropBox(box, h) ==
    LET lower_left_x == PyFloatOfObject(lower_left(box)[1])
        lower_left_y == PyFloatOfObject(lower_left(box)[2])
        upper_right_x == PyFloatOfObject(upper_right(box)[1])
        upper_right_y == PyFloatOfObject(upper_right(box)[2])
        new_lower_y == lower_left_y.val + h
    IN  IF lower_left_x.ok /\ lower_left_y.ok /\ upper_right_x.ok /\ upper_right_y.ok
        THEN [ok |-> TRUE,
              box |-> SetUpperRight(SetLowerLeft(box, <<lower_left_x.val, new_lower_y>>),
                                    <<upper_right_x.val, upper_right_y.val>>)]
        ELSE [ok |-> FALSE, box |-> box]

\* Variants: the page put in front; the output opened before the loop is done.
add_page_front(w, page) == <<page>> \o w
LoopExhaustedAlways == TRUE

\* writer.add_page(page) of line 48.
add_page(w, page) == Append(w, page)

\* The for statement of line 32 has no page left.
LoopExhausted == ~(page_num < Len(reader))

\* Lines 32-50: one iteration of the loop.
RfPage ==
    /\ pc = "rf_loop"
    /\ ~LoopExhausted
    /\ LET page == reader[page_num + 1]
           crop == CropBox(page.mediabox, footer_height_points)
           cropped == [page EXCEPT !.mediabox = crop.box]
       IN  IF crop.ok
           THEN /\ reader' = [reader EXCEPT ![page_num + 1] = cropped]
                /\ writer' = add_page(writer, cropped)
                /\ calls' = Append(calls, "add_page")
                /\ stdout' = Append(stdout, Line("Processed page", page_num + 1, Len(reader), ""))
                /\ page_num' = page_num + 1
                /\ UNCHANGED <<pc, exc, exit_status>>
           ELSE /\ exc' = [cls |-> "TypeError", at |-> "page"]
                /\ pc' = TryTarget("TypeError")
                /\ exit_status' = IF TryTarget("TypeError") = "exited" THEN 1 ELSE exit_status
                /\ UNCHANGED <<reader, writer, calls, stdout, page_num>>
    /\ UNCHANGED <<fs, sys_argv, input_pdf, output_pdf, footer_height_points,
                   output_file, stderr, orig_pages, fs0, prev, runs>>

\* Line 53, reached when the loop is exhausted: open(output_pdf, 'wb')
\* truncates the file, or fails (permissions, no such directory).
RfOpen ==
    /\ pc = "rf_loop"
    /\ LoopExhausted
    /\ calls' = Append(calls, "open")
    /\ \E opened \in BOOLEAN :
         IF opened
         THEN /\ fs' = [fs EXCEPT ![output_pdf] = Garbage]
              /\ output_file' = "open"
              /\ pc' = "rf_write"
              /\ UNCHANGED <<exc, exit_status>>
         ELSE /\ exc' = [cls |-> "OSError", at |-> "open"]
              /\ pc' = TryTarget("OSError")
              /\ exit_status' = IF TryTarget("OSError") = "exited" THEN 1 ELSE exit_status
              /\ UNCHANGED <<fs, output_file>>
    /\ UNCHANGED <<sys_argv, input_pdf, output_pdf, footer_height_points, reader,
                   writer, page_num, stdout, stderr, orig_pages, fs0, prev, runs>>

\* Line 54: writer.write(output_file).  A failed write (the flush that close
\* performs counted with it) leaves a partial file.
RfWrite ==
    /\ pc = "rf_write"
    /\ calls' = Append(calls, "write")
    /\ \E written \in BOOLEAN :
         IF written
         THEN /\ fs' = [fs EXCEPT ![output_pdf] = PdfFile(writer)]
              /\ UNCHANGED exc
         ELSE /\ fs' = [fs EXCEPT ![output_pdf] = Garbage]
              /\ exc' = [cls |-> "OSError", at |-> "write"]
    /\ pc' = "rf_with_exit"
    /\ UNCHANGED <<sys_argv, input_pdf, output_pdf, footer_height_points, reader,
                   writer, page_num, output_file, stdout, stderr, exit_status,
                   orig_pages, fs0, prev, runs>>

\* Variant: the handle closed only when the body ended normally.
WithExitHandleLeak(pending) == IF pending = NoExc THEN "closed" ELSE "open"

\* What the with statement of line 53 does to the handle when its body ends.
WithExitHandle(pending) == "closed"

\* Lines 53-54, leaving the with block: the handle is closed whether or not
\* the body raised, then the exception, if any, goes on.
RfWithExit ==
    /\ pc = "rf_with_exit"
    /\ output_file' = WithExitHandle(exc)
    /\ calls' = Append(calls, "close")
    /\ IF exc = NoExc
       THEN /\ pc' = "rf_success"
            /\ UNCHANGED exit_status
       ELSE /\ pc' = TryTarget(exc.cls)
            /\ exit_status' = IF TryTarget(exc.cls) = "exited" THEN 1 ELSE exit_status
    /\ UNCHANGED <<fs, sys_argv, input_pdf, output_pdf, footer_height_points, reader,
                   writer, page_num, exc, stdout, stderr, orig_pages, fs0, prev, runs>>

\* Lines 56-59, then the return to line 93 or 83 and the end of the script.
RfSuccess ==
    /\ pc = "rf_success"
    /\ stdout' = stdout \o << Line("Success! Footer removed from", Len(reader), 0, "pages."),
                              Line("Output saved to:", 0, 0, output_pdf) >>
    /\ pc' = "exited"
    /\ exit_status' = 0
    /\ UNCHANGED <<fs, sys_argv, input_pdf, output_pdf, footer_height_points, reader,
                   writer, page_num, output_file, exc, stderr, calls, orig_pages,
                   fs0, prev, runs>>

\* Lines 61-63: the handler prints the message and calls sys.exit(1), now
\* outside the try.
RfExcept ==
    /\ pc = "rf_except"
    /\ stdout' = Append(stdout, Line("Error processing PDF:", 0, 0, exc.cls))
    /\ pc' = "exited"
    /\ exit_status' = 1
    /\ UNCHANGED <<fs, sys_argv, input_pdf, output_pdf, footer_height_points, reader,
                   writer, page_num, output_file, exc, stderr, calls, orig_pages,
                   fs0, prev, runs>>

(* ------------------------- the next invocation ------------------------ *)

\* What is remembered of an invocation that has ended.
Ended ==
    IF exit_status = 0
    THEN [ok |-> TRUE, output |-> output_pdf, h |-> footer_height_points,
          orig |-> orig_pages, out |-> fs[output_pdf].pages]
    ELSE NoPrev

\* Line 86: the script is started again, on the files the last run left.
Invoke ==
    /\ pc = "exited"
    /\ runs < MaxRuns
    /\ runs' = runs + 1
    /\ prev' = Ended
    /\ \E argv \in CommandLines : sys_argv' = argv
    /\ fs0' = fs
    /\ pc' = "start"
    /\ input_pdf' = ""
    /\ output_pdf' = ""
    /\ footer_height_points' = 0
    /\ reader' = <<>>
    /\ writer' = <<>>
    /\ page_num' = 0
    /\ output_file' = "unopened"
    /\ exc' = NoExc
    /\ stdout' = <<>>
    /\ stderr' = <<>>
    /\ exit_status' = -1
    /\ calls' = <<>>
    /\ orig_pages' = <<>>
    /\ UNCHANGED fs

Step ==
    \/ CommandLine
    \/ main
    \/ RfExists
    \/ RfRead
    \/ RfPage
    \/ RfOpen
    \/ RfWrite
    \/ RfWithExit
    \/ RfSuccess
    \/ RfExcept

Next == Step \/ Invoke

Spec == Init /\ [][Next]_vars

(* ------------------------------ properties ---------------------------- *)

Has(seq, x) == \E i \in 1..Len(seq) : seq[i] = x

Succeeded == pc = "exited" /\ exit_status = 0

\* The pages of the document at the output path.
OutPages == fs[output_pdf].pages

\* The value of coordinate i (1 llx, 2 lly, 3 urx, 4 ury) of a page's rectangle.
Coord(page, i) == page.mediabox[i].v

Height(page) == Coord(page, 4) - Coord(page, 2)

\* C1: after a successful run every output page has the input page's
\* lower-left-x, upper-right-x and upper-right-y, and the input page's
\* lower-left-y plus the footer height.
C1_OnlyLowerLeftYMoves ==
    Succeeded =>
        \A p \in 1..Len(orig_pages) :
            /\ p <= Len(OutPages)
            /\ Coord(OutPages[p], 1) = Coord(orig_pages[p], 1)
            /\ Coord(OutPages[p], 2) = Coord(orig_pages[p], 2) + footer_height_points
            /\ Coord(OutPages[p], 3) = Coord(orig_pages[p], 3)
            /\ Coord(OutPages[p], 4) = Coord(orig_pages[p], 4)

\* A (0,0)-(612,792) page cropped by 50 has become (0,50)-(612,792); a second
\* page with a lower edge off the origin was cropped in the same run.
C1_Witness ==
    /\ Succeeded
    /\ footer_height_points = 50
    /\ orig_pages = <<LetterPage, SmallPage>>
    /\ <<Coord(OutPages[1], 1), Coord(OutPages[1], 2),
         Coord(OutPages[1], 3), Coord(OutPages[1], 4)>> = <<0, 50, 612, 792>>
    /\ Coord(OutPages[2], 2) = 70

\* C2: a successful run leaves at the output path a document with exactly the
\* input's pages, in the input's order; a zero-page input is read and
\* processed without error (only opening or writing the output can fail).
C2_SamePagesSameOrder ==
    /\ Succeeded =>
          /\ fs[output_pdf].kind = "pdf"
          /\ Len(OutPages) = Len(orig_pages)
          /\ \A i \in 1..Len(orig_pages) : OutPages[i].content = orig_pages[i].content
    /\ (Has(calls, "PdfReader") /\ exc.at # "read" /\ orig_pages = <<>> /\ exc # NoExc)
          => exc.at \in {"open", "write"}
    /\ (Succeeded /\ orig_pages = <<>>) => fs[output_pdf] = PdfFile(<<>>)

\* Two different pages came out in the order they went in.
C2_Witness ==
    /\ Succeeded
    /\ Len(orig_pages) = 2
    /\ orig_pages[1].content # orig_pages[2].content
    /\ OutPages[1].content = orig_pages[1].content
    /\ OutPages[2].content = orig_pages[2].content

\* C3: when remove_footer starts on an input path that does not exist, the
\* process prints the not-found error and exits with status 1 at once: the
\* reader is never opened, no page is processed, the output path is never
\* opened, and every file is as it was (no output created, an existing output
\* unchanged).
C3_MissingInput ==
    (calls # <<>> /\ fs0[input_pdf].kind = "absent") =>
        /\ pc = "exited"
        /\ exit_status = 1
        /\ calls = <<"exists">>
        /\ stdout # <<>>
        /\ stdout[Len(stdout)].msg = "Error: Input file not found."
        /\ reader = <<>>
        /\ writer = <<>>
        /\ output_file = "unopened"
        /\ fs = fs0

\* The input was missing while the output path already held a document.
C3_Witness ==
    /\ pc = "exited"
    /\ calls = <<"exists">>
    /\ fs0[input_pdf].kind = "absent"
    /\ input_pdf # output_pdf
    /\ fs0[output_pdf].kind = "pdf"
    /\ fs[output_pdf] = fs0[output_pdf]
    /\ exit_status = 1

InputExisted == calls # <<>> /\ fs0[input_pdf].kind # "absent"

AllPagesProcessed ==
    /\ Has(calls, "PdfReader")
    /\ fs0[input_pdf].kind = "pdf"
    /\ page_num = Len(fs0[input_pdf].pages)
    /\ Len(writer) = page_num

WriteCompleted == Has(calls, "write") /\ fs[output_pdf] = PdfFile(writer)

C4_Status ==
    pc = "exited" =>
        /\ exit_status \in {0, 1}
        /\ exit_status = 0 <=> (InputExisted /\ AllPagesProcessed /\ WriteCompleted)

\* A run that has not ended can take a step.
NeverStuck == pc # "exited" => ENABLED Step

MaxOf(S) == CHOOSE n \in S : \A m \in S : m <= n

\* An upper bound on the steps the current invocation has left.
StepsLeft ==
    LET longest == MaxOf({Len(fs[p].pages) : p \in Paths})
    IN  CASE pc = "start" -> 7 + longest
          [] pc = "rf_exists" -> 6 + longest
          [] pc = "rf_read" -> 5 + longest
          [] pc = "rf_loop" -> 4 + (Len(reader) - page_num)
          [] pc = "rf_write" -> 3
          [] pc = "rf_with_exit" -> 2
          [] pc \in {"rf_success", "rf_except"} -> 1
          [] OTHER -> 0

\* C4: every run terminates (a run that has not ended can always step, and
\* each step leaves fewer steps to go), with status 0 exactly when the input
\* existed, every page was processed and the write of the output completed,
\* and with status 1 in every other case.
C4_ExitStatus ==
    /\ [](C4_Status /\ NeverStuck /\ StepsLeft >= 0)
    /\ [][Step => StepsLeft' < StepsLeft]_vars

\* A run that ended with status 1 after one that ended with status 0.
C4_Witness == pc = "exited" /\ exit_status = 1 /\ exc.at = "write" /\ prev.ok

\* C5: the output path is untouched until it is opened, it is opened only
\* once every page has been read and adjusted, and a failure while parsing or
\* on page k stops the run there: no later page is processed, the output is
\* never opened and no file has changed.
C5_NothingWrittenBeforeFinalWrite ==
    /\ output_file = "unopened" => fs = fs0
    /\ Has(calls, "open") =>
          /\ Has(calls, "PdfReader")
          /\ exc.at \notin {"read", "page"}
          /\ page_num = Len(orig_pages)
          /\ Len(writer) = Len(orig_pages)
    /\ exc.at \in {"read", "page"} =>
          /\ fs = fs0
          /\ output_file = "unopened"
          /\ ~Has(calls, "open")
          /\ Len(writer) = page_num
          /\ Cardinality({i \in 1..Len(calls) : calls[i] = "add_page"}) = page_num
          /\ exc.at = "read" => page_num = 0

\* The first of two pages failed: the second was never processed and no file
\* changed.
C5_Witness ==
    /\ pc = "exited"
    /\ exc.at = "page"
    /\ Len(orig_pages) = 2
    /\ page_num = 0
    /\ writer = <<>>
    /\ fs = fs0

MalformedFooterArg == Len(sys_argv) > 3 /\ ~PyFloatOfString(sys_argv[4]).ok

\* C6 as stated: a malformed footer_height argument is caught by the handler
\* of lines 61-63, which prints its message, and the process exits with 1.
C6_MalformedArgCaughtByHandler ==
    (pc = "exited" /\ MalformedFooterArg) =>
        /\ exit_status = 1
        /\ stdout # <<>>
        /\ stdout[Len(stdout)].msg = "Error processing PDF:"

\* C6 amended: a malformed footer_height argument raises before remove_footer
\* is called, outside its handler: nothing is printed on stdout, no file is
\* looked at or changed, the interpreter reports the uncaught ValueError and
\* the process exits with status 1.
C6_MalformedArgUncaught ==
    MalformedFooterArg =>
        /\ pc \in {"start", "exited"}
        /\ pc = "exited" =>
              /\ exit_status = 1
              /\ exc = [cls |-> "ValueError", at |-> "argv"]
              /\ stdout = <<>>
              /\ stderr # <<>>
              /\ calls = <<>>
              /\ output_file = "unopened"
              /\ fs = fs0

C6_Witness ==
    /\ pc = "exited"
    /\ MalformedFooterArg
    /\ exit_status = 1
    /\ stderr # <<>>
    /\ stdout = <<>>

\* remove_footer has been called in this invocation.
Called == pc # "start" /\ exc.at # "argv"

\* C7: remove_footer is called with the supplied values for the arguments
\* given and with input.pdf, output.pdf and 50 for those that are not.
C7_ArgumentsAndDefaults ==
    Called =>
        /\ input_pdf = IF Len(sys_argv) >= 2 THEN sys_argv[2] ELSE "input.pdf"
        /\ output_pdf = IF Len(sys_argv) >= 3 THEN sys_argv[3] ELSE "output.pdf"
        /\ footer_height_points =
              IF Len(sys_argv) >= 4 THEN PyFloatOfString(sys_argv[4]).val ELSE 50

\* Two arguments given: both paths are the supplied ones (not the defaults)
\* and the height is the default.
C7_Witness ==
    /\ Called
    /\ Len(sys_argv) = 3
    /\ input_pdf = "output.pdf"
    /\ output_pdf = "input.pdf"
    /\ footer_height_points = 50

\* A successful run on the output of the previous successful run, with the
\* same positive footer height.
Rerun ==
    /\ Succeeded
    /\ prev.ok
    /\ input_pdf = prev.output
    /\ footer_height_points = prev.h
    /\ prev.h > 0

\* C8: running the operation on its own output with the same h > 0 gives
\* pages whose lower-left-y is the original's plus 2*h, not the once-cropped
\* value, the other three coordinates being the original's.
C8_NotIdempotent ==
    Rerun =>
        /\ Len(OutPages) = Len(prev.orig)
        /\ \A p \in 1..Len(prev.orig) :
              /\ Coord(OutPages[p], 2) = Coord(prev.orig[p], 2) + 2 * prev.h
              /\ Coord(OutPages[p], 2) # Coord(prev.out[p], 2)
              /\ Coord(OutPages[p], 1) = Coord(prev.orig[p], 1)
              /\ Coord(OutPages[p], 3) = Coord(prev.orig[p], 3)
              /\ Coord(OutPages[p], 4) = Coord(prev.orig[p], 4)

C8_Witness ==
    /\ Rerun
    /\ prev.orig = <<SmallPage>>
    /\ prev.h = 5
    /\ Coord(prev.out[1], 2) = 25
    /\ Coord(OutPages[1], 2) = 30

\* C9: no rectangle is rejected for its bounds (a page fails only when its
\* rectangle cannot be read); after a successful run a page whose height the
\* footer height exceeds is inverted, and a page has lower-left-y below
\* upper-right-y only when the footer height is less than its height.
C9_NoBoundsValidation ==
    /\ exc.at = "page" =>
          \E i \in 1..4 : reader[page_num + 1].mediabox[i].t \notin {"int", "real"}
    /\ Succeeded =>
          \A p \in 1..Len(orig_pages) :
              /\ footer_height_points > Height(orig_pages[p])
                    => Coord(OutPages[p], 2) > Coord(OutPages[p], 4)
              /\ Coord(OutPages[p], 2) < Coord(OutPages[p], 4)
                    => footer_height_points < Height(orig_pages[p])

\* A run succeeded although the footer height exceeded a page's height.
C9_Witness ==
    /\ Succeeded
    /\ fs[output_pdf].kind = "pdf"
    /\ \E p \in 1..Len(orig_pages) :
          /\ footer_height_points > Height(orig_pages[p])
          /\ Coord(OutPages[p], 2) > Coord(OutPages[p], 4)

\* C10: once opened, the output handle is closed before the success message
\* is printed and before the failure handler runs; no process ends with the
\* handle open.
C10_HandleClosed ==
    /\ pc \in {"rf_success", "rf_except", "exited"} => output_file # "open"
    /\ (pc \in {"rf_success", "rf_except", "exited"} /\ Has(calls, "open")
           /\ exc.at # "open") => output_file = "closed"

\* The write raised and the handle is closed when the handler is entered.
C10_Witness ==
    /\ pc = "rf_except"
    /\ exc.at = "write"
    /\ output_file = "closed"

====
